---- MODULE Spec2Model ----
(***************************************************************************)
(* pantry-pal-ui: the API client (client/src/lib/api.ts), the auth session *)
(* store (AuthProvider, lib/auth-context) and the router (client/src/      *)
(* App.tsx) as one state machine.  localStorage, the React state of the    *)
(* mounted components, the wouter location and the requests in flight are  *)
(* the state; every user interaction and every arriving response is one    *)
(* action, taken together with the renders and effects it triggers.        *)
(***************************************************************************)
EXTENDS Integers, Sequences, FiniteSets, TLC

\* ------------------------------------------------------------------ bounds

\* Requests ever issued in one behaviour (request ids are 1..MaxRequests).
MaxRequests == 8

\* Items in a collection whose filtering is examined.
MaxShown == 2

\* Ids the backend ever assigns (item ids are 1..MaxItems).
MaxItems == 3

\* Create, update and delete requests Home issues after its initial load.
MaxMutations == 2

\* ------------------------------------------------------------- value sets

\* localStorage.getItem returns null for a missing key.
NoToken == "null"
NoUser == "null"
\* An AuthResponse.token is any string; the empty one is falsy.
EmptyToken == ""
Tokens == {"t1", "t2"}
Users == {"u1", "u2"}

\* ApiResponse.message is optional; a present one may be the empty string.
NoMsg == "undefined"
EmptyMsg == ""
ServerMsgs == {"Invalid credentials"}
EnvelopeMsgs == ServerMsgs \cup {NoMsg, EmptyMsg}

\* JavaScript truthiness of a string-or-null value.
Truthy(v) == v \notin {"null", "undefined", ""}

\* The messages of the errors request throws (api.ts:36, 41, 46, 53).
MsgUnauthorized == "Unauthorized. Please login again."
MsgForbidden == "You don't have permission to access this resource."
MsgServerError == "Server error. Please try again later."
MsgGeneric == "An error occurred"
\* fetch() itself rejects when the network fails.
MsgNetwork == "Failed to fetch"

\* HTTP statuses a response may carry; NetFail stands for fetch() rejecting.
NetFail == 0
Statuses == {199, 200, 201, 299, 300, 304, 400, 401, 403, 404, 499, 500, 503}

\* Response.ok
ResponseOk(status) == status >= 200 /\ status <= 299

\* Endpoints of ApiService that the modelled components call.
AuthKinds == {"login", "register"}
DataKinds == {"getItems", "getStatsSummary", "getMonthlySpending"}
Kinds == AuthKinds \cup DataKinds \cup {"verify", "logout"}

\* The payload (ApiResponse.data) of an endpoint: an AuthResponse {token, user}
\* for login/register, {user} for verify; the other payloads carry nothing the
\* session reads.
NoData == [token |-> NoToken, user |-> NoUser]
AllPayloads(kind) ==
  IF kind \in AuthKinds
    THEN [token : Tokens \cup {EmptyToken}, user : Users]
    ELSE IF kind = "verify" THEN [token : {NoToken}, user : Users]
    ELSE {NoData}

\* The backend issues each user one token: t1 is u1's and t2 is u2's.
TokenOf(u) == IF u = "u1" THEN "t1" ELSE "t2"
Payloads(kind) ==
  {d \in AllPayloads(kind) : d.token \in {NoToken, EmptyToken, TokenOf(d.user)}}

\* A response as fetch() delivers it: the status and the parsed JSON envelope
\* {success, data, message} (api-config.ts ApiResponse).
Envelopes(kind) == [success : BOOLEAN, message : EnvelopeMsgs, data : AllPayloads(kind)]

\* The responses the backend sends: a 2xx response carries the endpoint's
\* payload, an error response carries the error format {success: false, message}.
\* A fetch() that rejects has no response; its body is a filler.
ErrorBody(m) == [success |-> FALSE, message |-> m, data |-> NoData]
ErrorStatuses(kind) == IF kind \in AuthKinds THEN {400, 401, 500} ELSE {401, 500}
ErrorMsgs(kind) == IF kind \in AuthKinds THEN {NoMsg, "Invalid credentials"} ELSE {NoMsg}
Responses(kind) ==
  [status : {200}, body : [success : {TRUE}, message : {NoMsg}, data : Payloads(kind)]]
    \cup {[status |-> st, body |-> ErrorBody(m)] :
            st \in ErrorStatuses(kind), m \in ErrorMsgs(kind)}
    \cup {[status |-> NetFail, body |-> ErrorBody(NoMsg)]}

\* Every response of the envelope's type, for the claims about request() alone.
AllResponses(kind) == [status : Statuses \cup {NetFail}, body : Envelopes(kind)]

\* ----------------------------------------------------------------- state

VARIABLES
  token,          \* localStorage["pantrypal_auth_token"]
  cachedUser,     \* localStorage["pantrypal_user"]
  user,           \* AuthProvider state: user
  isAuthenticated,\* AuthProvider state: isAuthenticated
  isLoading,      \* AuthProvider state: isLoading
  location,       \* wouter location (the path shown)
  navPending,     \* window.location.href was assigned "/auth": a page load is due
  homeMounted,    \* <Home/> is mounted
  authError,      \* AuthPage state: error ("" when AuthPage is not mounted)
  inflight,       \* requests issued and not yet answered
  nextId,         \* requests issued so far
  lastVerify,     \* history: how this document's verifyAuth ended, if it has
  step            \* the handler that ran last, with what request() gave it

\* The state of Home (pages/home.tsx), of its dialog and cards, and of the
\* backend it talks to.
VARIABLES
  items,          \* Home state: items, the collection
  filteredItems,  \* Home state: filteredItems, what the grid renders
  searchQuery,    \* Home state: searchQuery
  statusFilter,   \* Home state: statusFilter
  categoryFilter, \* Home state: categoryFilter
  frequencyFilter,\* Home state: frequencyFilter
  homeIsLoading,  \* Home state: isLoading (the grid shows a spinner)
  isDialogOpen,   \* Home state: isDialogOpen
  editingItem,    \* Home state: editingItem (NoItem for null)
  showDeleteAlert,\* InventoryCard state: the id of the card whose alert is open
  pending,        \* Home's requests issued and not yet answered
  server,         \* the backend's items
  serverNextId,   \* the id the backend gives the next created item
  event           \* the Home handler that ran last, with what it was given

homeVars == <<items, filteredItems, searchQuery, statusFilter, categoryFilter,
              frequencyFilter, homeIsLoading, isDialogOpen, editingItem,
              showDeleteAlert, pending, server, serverNextId, event>>

authVars == <<token, cachedUser, user, isAuthenticated, isLoading, location,
              navPending, homeMounted, authError, inflight, nextId, lastVerify, step>>

vars == <<authVars, homeVars>>

\* The program state a handler reads and writes, as one record.
Cur ==
  [token |-> token, cachedUser |-> cachedUser, user |-> user,
   isAuthenticated |-> isAuthenticated, isLoading |-> isLoading,
   location |-> location, navPending |-> navPending,
   homeMounted |-> homeMounted, authError |-> authError,
   inflight |-> inflight, nextId |-> nextId, lastVerify |-> lastVerify]

\* ------------------------------------------------------------ API client

\* getToken(): localStorage.getItem(tokenKey)
getToken(s) == s.token

\* setToken(t): localStorage.setItem(tokenKey, t)
setToken(s, t) == [s EXCEPT !.token = t]

\* A clearAuth that leaves the cached user behind.
clearAuthTokenOnly(s) == [s EXCEPT !.token = NoToken]

\* clearAuth(): both storage keys are removed.
clearAuth(s) == [s EXCEPT !.token = NoToken, !.cachedUser = NoUser]

\* The Authorization header of a request: token && { Authorization: Bearer token }.
NoHeader == "no Authorization header"
\* A request() that never attaches the token.
AuthHeaderNever(t) == NoHeader

AuthHeader(t) == IF Truthy(t) THEN t ELSE NoHeader

\* request(), up to the fetch: the token is read and the request goes out.
Issue(s, kind) ==
  [s EXCEPT !.nextId = s.nextId + 1,
            !.inflight = s.inflight \cup
               {[id |-> s.nextId + 1, kind |-> kind, auth |-> AuthHeader(getToken(s))]}]

\* request(), from the response on: what the caller gets.  ok = the promise
\* resolves with data; otherwise it rejects with an Error of that message.
Resolved(data) == [ok |-> TRUE, message |-> "", data |-> data]
Rejected(msg) == [ok |-> FALSE, message |-> msg, data |-> NoData]

\* A request() that tests response.ok ahead of the 403 and 5xx checks.
requestOkFirst(resp) ==
  IF resp.status = NetFail THEN Rejected(MsgNetwork)
  ELSE IF resp.status = 401 THEN Rejected(MsgUnauthorized)
  ELSE IF ~ResponseOk(resp.status)
    THEN Rejected(IF Truthy(resp.body.message) THEN resp.body.message ELSE MsgGeneric)
  ELSE Resolved(resp.body.data)

\* A request() that also rejects an envelope whose success flag is false.
requestChecksSuccess(resp) ==
  IF resp.status = NetFail THEN Rejected(MsgNetwork)
  ELSE IF resp.status = 401 THEN Rejected(MsgUnauthorized)
  ELSE IF resp.status = 403 THEN Rejected(MsgForbidden)
  ELSE IF resp.status >= 500 THEN Rejected(MsgServerError)
  ELSE IF ~ResponseOk(resp.status) \/ ~resp.body.success
    THEN Rejected(IF Truthy(resp.body.message) THEN resp.body.message ELSE MsgGeneric)
  ELSE Resolved(resp.body.data)

request(resp) ==
  IF resp.status = NetFail THEN Rejected(MsgNetwork)
  ELSE IF resp.status = 401 THEN Rejected(MsgUnauthorized)
  ELSE IF resp.status = 403 THEN Rejected(MsgForbidden)
  ELSE IF resp.status >= 500 THEN Rejected(MsgServerError)
  ELSE IF ~ResponseOk(resp.status)
    THEN Rejected(IF Truthy(resp.body.message) THEN resp.body.message ELSE MsgGeneric)
  ELSE Resolved(resp.body.data)

\* request(), from the response on: what it does to storage and the document.
\* A 401 clears both keys and assigns window.location.href = "/auth".
requestEffect(s, resp) ==
  IF resp.status = 401 THEN [clearAuth(s) EXCEPT !.navPending = TRUE] ELSE s

\* An ApiService.login that stores the token and forgets the user.
apiLoginTokenOnly(s, res) ==
  IF res.ok /\ Truthy(res.data.token) THEN setToken(s, res.data.token) ELSE s

\* ApiService.login / ApiService.register, after request(): a truthy token is
\* stored together with the user.
apiLogin(s, res) ==
  IF res.ok /\ Truthy(res.data.token)
    THEN [setToken(s, res.data.token) EXCEPT !.cachedUser = res.data.user]
    ELSE s

\* ApiService.logout, after request(): finally { clearAuth() }.
apiLogout(s, res) == clearAuth(s)

\* ---------------------------------------------------- auth session store

\* A verifyAuth that calls verifyToken whether or not a token is stored.
verifyAuthAlways(s) == Issue(s, "verify")

\* verifyAuth, up to the await: a stored token is verified, no token does nothing.
verifyAuth(s) == IF Truthy(s.token) THEN Issue(s, "verify") ELSE s

\* A verifyAuth that does not write the verified user to localStorage.
verifyAuthDoneNoPersist(s, res) ==
  IF res.ok
    THEN [s EXCEPT !.user = res.data.user, !.isAuthenticated = TRUE,
                   !.lastVerify = "passed"]
    ELSE [clearAuth(s) EXCEPT !.user = NoUser, !.isAuthenticated = FALSE,
                              !.lastVerify = "failed"]

\* verifyAuth, after the await.
verifyAuthDone(s, res) ==
  IF res.ok
    THEN [s EXCEPT !.user = res.data.user, !.isAuthenticated = TRUE,
                   !.cachedUser = res.data.user, !.lastVerify = "passed"]
    ELSE [clearAuth(s) EXCEPT !.user = NoUser, !.isAuthenticated = FALSE,
                              !.lastVerify = "failed"]

\* AuthProvider.login, up to the await.
login(s) == Issue([s EXCEPT !.isLoading = TRUE], "login")

\* An AuthProvider.login that sets the user and forgets setIsAuthenticated(true).
loginDoneNoFlag(s, res) ==
  IF res.ok
    THEN [s EXCEPT !.user = res.data.user, !.isLoading = FALSE]
    ELSE [s EXCEPT !.isLoading = FALSE]

\* AuthProvider.login, after the await (try / catch / finally).
loginDone(s, res) ==
  IF res.ok
    THEN [s EXCEPT !.user = res.data.user, !.isAuthenticated = TRUE,
                   !.isLoading = FALSE]
    ELSE [s EXCEPT !.isLoading = FALSE]

\* An AuthProvider.login whose catch shows the toast and does not re-throw.
loginResultSwallowed(res) == Resolved(NoData)

\* The promise AuthProvider.login / register returns: void, or the error re-thrown.
loginResult(res) == IF res.ok THEN Resolved(NoData) ELSE Rejected(res.message)

\* AuthProvider.register, up to the await.
register(s) == Issue([s EXCEPT !.isLoading = TRUE], "register")

\* An AuthProvider.register without the finally that resets isLoading.
registerDoneNoFinally(s, res) ==
  IF res.ok
    THEN [s EXCEPT !.user = res.data.user, !.isAuthenticated = TRUE,
                   !.isLoading = FALSE]
    ELSE s

\* AuthProvider.register, after the await.
registerDone(s, res) ==
  IF res.ok
    THEN [s EXCEPT !.user = res.data.user, !.isAuthenticated = TRUE,
                   !.isLoading = FALSE]
    ELSE [s EXCEPT !.isLoading = FALSE]

\* An AuthProvider.logout that clears the storage before it sends the request.
logoutClearsFirst(s) == Issue(clearAuth([s EXCEPT !.isLoading = TRUE]), "logout")

\* AuthProvider.logout, up to the await.
logout(s) == Issue([s EXCEPT !.isLoading = TRUE], "logout")

\* An AuthProvider.logout without the catch branch's cleanup.
logoutDoneNoCatch(s, res) ==
  IF res.ok
    THEN [s EXCEPT !.user = NoUser, !.isAuthenticated = FALSE,
                   !.isLoading = FALSE]
    ELSE [s EXCEPT !.isLoading = FALSE]

\* AuthProvider.logout, after the await: res is what apiService.logout gave.
logoutDone(s, res) ==
  IF res.ok
    THEN [s EXCEPT !.user = NoUser, !.isAuthenticated = FALSE,
                   !.isLoading = FALSE]
    ELSE [clearAuth(s) EXCEPT !.user = NoUser, !.isAuthenticated = FALSE,
                              !.isLoading = FALSE]

\* The promise AuthProvider.logout returns: its catch swallows the error.
logoutResult(res) == Resolved(NoData)

\* ------------------------------------------------------ pages and router

\* AuthPage.handleLogin / handleRegister, after await login(): the caller of
\* login goes to "/" when it resolved and shows the message when it rejected.
handleLoginDone(s, res) ==
  IF res.ok THEN [s EXCEPT !.location = "/"]
            ELSE [s EXCEPT !.authError = res.message]

\* Home.handleLogout, after await logout(): to "/auth" unless logout rejected.
handleLogoutDone(s, res) == IF res.ok THEN [s EXCEPT !.location = "/auth"] ELSE s

\* A ProtectedRoute that renders Home without looking at the user.
HomeRenderedNoUser(s) == s.location = "/" /\ ~s.isLoading

\* ProtectedRoute renders Home when a user is present and nothing is loading.
HomeRendered(s) == s.location = "/" /\ ~s.isLoading /\ s.user # NoUser

\* Home's mount effect: loadItems() and loadStats() issue their requests.
HomeMount(s) ==
  Issue(Issue(Issue(s, "getItems"), "getStatsSummary"), "getMonthlySpending")

\* The effects that set the location, each applied to the location rendered.
HomeAuthCheck(s) == HomeRendered(s) /\ ~s.isAuthenticated
ProtectedRoute(s) == s.location = "/" /\ ~s.isLoading /\ s.user = NoUser

\* A Router that sends every visitor of the auth pages to "/", signed in or not.
RouterAnyUser(s) == s.location \in {"/auth", "/forgot-password"}

Router(s) == s.user # NoUser /\ s.location \in {"/auth", "/forgot-password"}

\* One commit: the components of the location render, their effects run.
Rendered(s) ==
  LET m == IF HomeRendered(s) /\ ~s.homeMounted THEN HomeMount(s) ELSE s
      loc == IF HomeAuthCheck(s) \/ ProtectedRoute(s) THEN "/auth"
             ELSE IF Router(s) THEN "/" ELSE s.location
  IN [m EXCEPT !.homeMounted = HomeRendered(s),
               !.location = loc,
               !.authError = IF s.location = "/auth" THEN s.authError ELSE ""]

\* The commit of a state that is computed once.
RenderStep(s0) == CHOOSE out \in {Rendered(s) : s \in {s0}} : TRUE

\* Renders follow one another until no effect changes anything.
Render(s) == RenderStep(RenderStep(RenderStep(s)))

\* A new document: React state is initialised from localStorage, nothing is
\* in flight, the first render's effects run, then AuthProvider's verifyAuth.
PageLoad(tok, cu, loc, n) ==
  LET s0 == [token |-> tok, cachedUser |-> cu, user |-> cu,
             isAuthenticated |-> (cu # NoUser), isLoading |-> FALSE,
             location |-> loc, navPending |-> FALSE, homeMounted |-> FALSE,
             authError |-> "", inflight |-> {}, nextId |-> n,
             lastVerify |-> "none"]
  IN Render(verifyAuth(RenderStep(s0)))

\* ------------------------------------------------------ inventory values

\* A text is a sequence of characters; "A" and "B" are the upper-case letters.
LowerChar(c) == CASE c = "A" -> "a" [] c = "B" -> "b" [] OTHER -> c

\* String.prototype.toLowerCase
toLowerCase(str) == [i \in 1..Len(str) |-> LowerChar(str[i])]

\* String.prototype.includes
includes(str, sub) ==
  \E i \in 0..(Len(str) - Len(sub)) : SubSeq(str, i + 1, i + Len(sub)) = sub

\* An InventoryItem {id, name, category, status, frequency, note?}.  An item
\* without a note has the empty note: every reader tests the note's truthiness.
NoNote == <<>>
\* The id of a record that has none (a draft; null for editingItem).
NoId == 0
Item(id, name, note, status, category, frequency) ==
  [id |-> id, name |-> name, note |-> note, status |-> status,
   category |-> category, frequency |-> frequency]

\* The "all" sentinel of the three categorical filters.
AllFilter == "all"

\* The items, search texts and filter values the filtering is examined on.
FilterNames == {<<"A", "b">>, <<"b">>}
FilterNotes == {NoNote, <<"a">>}
FilterClasses ==
  {<<"in_stock", "groceries", "daily">>, <<"low", "groceries", "weekly">>,
   <<"low", "other", "daily">>}
FilterShapes == FilterNames \X FilterNotes \X FilterClasses
FilterCollections ==
  UNION {{[k \in 1..n |-> Item(k, f[k][1], f[k][2], f[k][3][1], f[k][3][2], f[k][3][3])] :
            f \in [1..n -> FilterShapes]} : n \in 0..MaxShown}
SearchTexts == {<<>>, <<"a">>, <<"B">>}
StatusFilters == {AllFilter, "in_stock", "low"}
CategoryFilters == {AllFilter, "groceries", "other"}
FrequencyFilters == {AllFilter, "daily", "weekly"}

\* ------------------------------------------------------------------ Home

\* applyFilters: a copy of items is narrowed by the search text, then by each
\* filter that is not "all"; the result becomes filteredItems.
applyFilters(its, q, sf, cf, ff) ==
  LET bySearch(i) == includes(toLowerCase(i.name), toLowerCase(q))
      byStatus(i) == i.status = sf
      byCategory(i) == i.category = cf
      byFrequency(i) == i.frequency = ff
      f1 == IF q # <<>> THEN SelectSeq(its, bySearch) ELSE its
      f2 == IF sf # AllFilter THEN SelectSeq(f1, byStatus) ELSE f1
      f3 == IF cf # AllFilter THEN SelectSeq(f2, byCategory) ELSE f2
  IN IF ff # AllFilter THEN SelectSeq(f3, byFrequency) ELSE f3

\* editingItem = null, and the dialog's blank form (add-item-dialog.tsx:39-43).
NoItem == Item(NoId, <<>>, NoNote, "in_stock", "groceries", "weekly")

\* What the Home handler that ran last was given and showed; anyFailed is
\* history: some response handled so far was a failure.
NoEvent(h) ==
  [handler |-> h, kind |-> "", item |-> NoId, ok |-> FALSE, result |-> NoItem,
   shown |-> "", confirmed |-> FALSE, anyFailed |-> FALSE]

\* Home's state as its useState initialisers leave it, with an empty backend.
HomeInit ==
  /\ items = <<>>
  /\ filteredItems = <<>>
  /\ searchQuery = <<>>
  /\ statusFilter = AllFilter
  /\ categoryFilter = AllFilter
  /\ frequencyFilter = AllFilter
  /\ homeIsLoading = TRUE
  /\ isDialogOpen = FALSE
  /\ editingItem = NoItem
  /\ showDeleteAlert = NoId
  /\ pending = {}
  /\ server = {}
  /\ serverNextId = 1
  /\ event = NoEvent("none")

\* String.prototype.trim
RECURSIVE trimStart(_)
trimStart(str) ==
  IF str # <<>> /\ Head(str) = " " THEN trimStart(Tail(str)) ELSE str
RECURSIVE trimEnd(_)
trimEnd(str) ==
  IF str # <<>> /\ str[Len(str)] = " " THEN trimEnd(SubSeq(str, 1, Len(str) - 1)) ELSE str
trim(str) == trimEnd(trimStart(str))

\* What the user types as the item's name, and the statuses a card's buttons set.
FormNames == {<<>>, <<" ">>, <<"b">>}
StatusChoices == {"in_stock", "low"}

\* Home's calls, and the payload of their responses: one item (create, update,
\* status), a list (getItems) or neither (delete, errors).
HomeKinds == {"getItems", "createItem", "updateItem", "updateItemStatus", "deleteItem"}
MutationKinds == HomeKinds \ {"getItems"}
HomeData(one, list) == [one |-> one, list |-> list]
NoHomeData == HomeData(NoItem, <<>>)
HomeOk(status, data) ==
  [status |-> status, body |-> [success |-> TRUE, message |-> NoMsg, data |-> data]]
HomeError(status, m) ==
  [status |-> status, body |-> [success |-> FALSE, message |-> m, data |-> NoHomeData]]

\* ------------------------------------------------------------ the backend

\* The backend's record of an id, NoItem when it has none.
ServerItem(srv, id) == IF \E x \in srv : x.id = id THEN CHOOSE x \in srv : x.id = id ELSE NoItem

\* GET /items lists the user's items; the order is the backend's choice.
RECURSIVE Ascending(_)
Ascending(srv) ==
  IF srv = {} THEN <<>>
  ELSE LET x == CHOOSE y \in srv : \A z \in srv : y.id <= z.id
       IN <<x>> \o Ascending(srv \ {x})
RECURSIVE Reverse(_)
Reverse(list) == IF list = <<>> THEN <<>> ELSE Append(Reverse(Tail(list)), Head(list))
Listings(srv) == {Ascending(srv), Reverse(Ascending(srv))}

\* The backend handles request r on its items srv with next id n: the set of
\* <<response, items after, next id after>> it may produce.  A request without
\* a valid token gets 401; any request may meet a rejected token or a server
\* error; otherwise the endpoint does its work.
Served(r, srv, n) ==
  LET x == ServerItem(srv, r.item)
      created == [r.arg EXCEPT !.id = n]
      updated == [x EXCEPT !.name = r.arg.name, !.note = r.arg.note,
                           !.category = r.arg.category, !.frequency = r.arg.frequency]
      patched == [x EXCEPT !.status = r.arg.status]
      missing == {<<HomeError(404, "Item not found"), srv, n>>}
      done ==
        CASE r.kind = "getItems" ->
               {<<HomeOk(200, HomeData(NoItem, l)), srv, n>> : l \in Listings(srv)}
          [] r.kind = "createItem" ->
               {<<HomeOk(201, HomeData(created, <<>>)), srv \cup {created}, n + 1>>}
          [] r.kind = "updateItem" ->
               IF x = NoItem THEN missing
               ELSE {<<HomeOk(200, HomeData(updated, <<>>)), (srv \ {x}) \cup {updated}, n>>}
          [] r.kind = "updateItemStatus" ->
               IF x = NoItem THEN missing
               ELSE {<<HomeOk(200, HomeData(patched, <<>>)), (srv \ {x}) \cup {patched}, n>>}
          [] OTHER ->
               IF x = NoItem THEN missing
               ELSE {<<HomeOk(200, NoHomeData), srv \ {x}, n>>}
      failed == {<<HomeError(401, "Invalid token"), srv, n>>,
                 <<HomeError(500, NoMsg), srv, n>>}
  IN IF r.auth = NoHeader THEN {<<HomeError(401, "Invalid token"), srv, n>>}
     ELSE done \cup failed

\* ---------------------------------------------------------------- actions

\* What the handler that ran last was given: the request answered, the
\* response and what request() made of it.
NoResponse == [status |-> NetFail, body |-> ErrorBody(NoMsg)]
NoStep(h) ==
  [handler |-> h, kind |-> "", auth |-> NoHeader, resp |-> NoResponse,
   res |-> Rejected("")]

Responded(h, r, resp, res) ==
  [handler |-> h, kind |-> r.kind, auth |-> r.auth, resp |-> resp, res |-> res]

\* The handler's result s0 is computed once and becomes the next state.
Commit(s0, st) ==
  \E s \in {s0} :
    /\ s.nextId <= MaxRequests
    /\ token' = s.token
    /\ cachedUser' = s.cachedUser
    /\ user' = s.user
    /\ isAuthenticated' = s.isAuthenticated
    /\ isLoading' = s.isLoading
    /\ location' = s.location
    /\ navPending' = s.navPending
    /\ homeMounted' = s.homeMounted
    /\ authError' = s.authError
    /\ inflight' = s.inflight
    /\ nextId' = s.nextId
    /\ lastVerify' = s.lastVerify
    /\ step' = st
    /\ UNCHANGED homeVars

\* What an earlier visit leaves in localStorage: nothing (never logged in, or
\* logged out), or the token and user a login stored.
StoredSessions ==
  {<<NoToken, NoUser>>} \cup {<<TokenOf(u), u>> : u \in Users}

\* The app is opened at "/" or "/auth".
Init ==
  \E st \in StoredSessions, loc \in {"/", "/auth"} :
    LET s == PageLoad(st[1], st[2], loc, 0) IN
      /\ token = s.token
      /\ cachedUser = s.cachedUser
      /\ user = s.user
      /\ isAuthenticated = s.isAuthenticated
      /\ isLoading = s.isLoading
      /\ location = s.location
      /\ navPending = s.navPending
      /\ homeMounted = s.homeMounted
      /\ authError = s.authError
      /\ inflight = s.inflight
      /\ nextId = s.nextId
      /\ lastVerify = s.lastVerify
      /\ step = NoStep("load")
      /\ HomeInit

\* The login form is submitted with a field left empty.
HandleLoginInvalid ==
  /\ location = "/auth" /\ ~isLoading
  /\ Commit(Render([Cur EXCEPT !.authError = "Please fill in all fields"]),
            NoStep("handleLogin"))

\* The login form is submitted with both fields filled.
HandleLogin ==
  /\ location = "/auth" /\ ~isLoading
  /\ Commit(Render(login([Cur EXCEPT !.authError = ""])), NoStep("handleLogin"))

\* The register form is submitted with a field left empty or a short password.
HandleRegisterInvalid ==
  /\ location = "/auth" /\ ~isLoading
  /\ \E m \in {"Please fill in all fields", "Password must be at least 6 characters"} :
       Commit(Render([Cur EXCEPT !.authError = m]), NoStep("handleRegister"))

\* The register form is submitted with valid fields.
HandleRegister ==
  /\ location = "/auth" /\ ~isLoading
  /\ Commit(Render(register([Cur EXCEPT !.authError = ""])), NoStep("handleRegister"))

\* "Logout" is chosen in Home's menu.
HandleLogout ==
  /\ homeMounted /\ isAuthenticated
  /\ Commit(Render(logout(Cur)), NoStep("handleLogout"))

\* The response to a request in flight arrives: request() and its callers run on.
Take(r) == [Cur EXCEPT !.inflight = inflight \ {r}]

\* Request r is answered with resp: what each awaiting caller does then.
VerifyResponseTo(r, resp) ==
  /\ r.kind = "verify"
  /\ LET res == request(resp) IN
       Commit(Render(verifyAuthDone(requestEffect(Take(r), resp), res)),
              Responded("verifyAuth", r, resp, res))

LoginResponseTo(r, resp) ==
  /\ r.kind = "login"
  /\ LET res == request(resp)
         s1 == apiLogin(requestEffect(Take(r), resp), res)
     IN Commit(Render(handleLoginDone(loginDone(s1, res), loginResult(res))),
               Responded("login", r, resp, res))

RegisterResponseTo(r, resp) ==
  /\ r.kind = "register"
  /\ LET res == request(resp)
         s1 == apiLogin(requestEffect(Take(r), resp), res)
     IN Commit(Render(handleLoginDone(registerDone(s1, res), loginResult(res))),
               Responded("register", r, resp, res))

LogoutResponseTo(r, resp) ==
  /\ r.kind = "logout"
  /\ LET res == request(resp)
         s1 == apiLogout(requestEffect(Take(r), resp), res)
     IN Commit(Render(handleLogoutDone(logoutDone(s1, res), logoutResult(res))),
               Responded("logout", r, resp, res))

DataResponseTo(r, resp) ==
  /\ r.kind \in DataKinds
  /\ Commit(Render(requestEffect(Take(r), resp)),
            Responded("data", r, resp, request(resp)))

VerifyResponse ==
  \E r \in inflight : \E resp \in Responses(r.kind) : VerifyResponseTo(r, resp)

LoginResponse ==
  \E r \in inflight : \E resp \in Responses(r.kind) : LoginResponseTo(r, resp)

RegisterResponse ==
  \E r \in inflight : \E resp \in Responses(r.kind) : RegisterResponseTo(r, resp)

LogoutResponse ==
  \E r \in inflight : \E resp \in Responses(r.kind) : LogoutResponseTo(r, resp)

DataResponse ==
  \E r \in inflight : \E resp \in Responses(r.kind) : DataResponseTo(r, resp)

\* The navigation a 401 started replaces the document.
Navigate ==
  /\ navPending
  /\ Commit(PageLoad(token, cachedUser, "/auth", nextId), NoStep("load"))

Next ==
  \/ HandleLoginInvalid
  \/ HandleLogin
  \/ HandleRegisterInvalid
  \/ HandleRegister
  \/ HandleLogout
  \/ VerifyResponse
  \/ LoginResponse
  \/ RegisterResponse
  \/ LogoutResponse
  \/ DataResponse
  \/ Navigate

Spec == Init /\ [][Next]_vars

\* ------------------------------------- a backend that rejects the token

\* The backend answers every request 401.
Rejections(kind) ==
  {[status |-> 401, body |-> ErrorBody(m)] : m \in ErrorMsgs(kind)}

\* The app is opened with a token in storage, with or without a cached user.
InitRejected ==
  \E t \in Tokens, cu \in {NoUser} \cup Users, loc \in {"/", "/auth"} :
    LET s == PageLoad(t, cu, loc, 0) IN
      /\ token = s.token
      /\ cachedUser = s.cachedUser
      /\ user = s.user
      /\ isAuthenticated = s.isAuthenticated
      /\ isLoading = s.isLoading
      /\ location = s.location
      /\ navPending = s.navPending
      /\ homeMounted = s.homeMounted
      /\ authError = s.authError
      /\ inflight = s.inflight
      /\ nextId = s.nextId
      /\ lastVerify = s.lastVerify
      /\ step = NoStep("load")
      /\ HomeInit

VerifyRejected ==
  \E r \in inflight : \E resp \in Rejections(r.kind) : VerifyResponseTo(r, resp)

LoginRejected ==
  \E r \in inflight : \E resp \in Rejections(r.kind) : LoginResponseTo(r, resp)

RegisterRejected ==
  \E r \in inflight : \E resp \in Rejections(r.kind) : RegisterResponseTo(r, resp)

LogoutRejected ==
  \E r \in inflight : \E resp \in Rejections(r.kind) : LogoutResponseTo(r, resp)

DataRejected ==
  \E r \in inflight : \E resp \in Rejections(r.kind) : DataResponseTo(r, resp)

\* Some request in flight receives its response.
Answer ==
  VerifyRejected \/ LoginRejected \/ RegisterRejected \/ LogoutRejected \/ DataRejected

NextRejected ==
  \/ HandleLoginInvalid
  \/ HandleLogin
  \/ HandleRegisterInvalid
  \/ HandleRegister
  \/ HandleLogout
  \/ VerifyRejected
  \/ LoginRejected
  \/ RegisterRejected
  \/ LogoutRejected
  \/ DataRejected
  \/ Navigate

\* Every request is answered in the end and a navigation that was started
\* completes; the user is free to act or not.
SpecRejected ==
  InitRejected /\ [][NextRejected]_vars /\ WF_vars(Answer) /\ WF_vars(Navigate)

\* ------------------------------------------------- request() on its own

\* One request of any endpoint is in flight with any stored session, and the
\* response that will answer it is any response of the envelope's type.
InitRequest ==
  \E st \in StoredSessions, kind \in Kinds :
    \E resp \in AllResponses(kind) :
      /\ token = st[1]
      /\ cachedUser = st[2]
      /\ user = st[2]
      /\ isAuthenticated = (st[2] # NoUser)
      /\ isLoading = FALSE
      /\ location = "/"
      /\ navPending = FALSE
      /\ homeMounted = FALSE
      /\ authError = ""
      /\ inflight = {[id |-> 1, kind |-> kind, auth |-> AuthHeader(st[1])]}
      /\ nextId = 1
      /\ lastVerify = "none"
      /\ step = [handler |-> "fetch", kind |-> kind, auth |-> AuthHeader(st[1]),
                 resp |-> resp, res |-> Rejected("")]
      /\ HomeInit

\* The response arrives and request() runs to its return or throw.
Request ==
  /\ step.handler = "fetch"
  /\ \E r \in inflight :
       LET s == requestEffect(Take(r), step.resp) IN
         /\ token' = s.token
         /\ cachedUser' = s.cachedUser
         /\ navPending' = s.navPending
         /\ inflight' = s.inflight
         /\ step' = Responded("request", r, step.resp, request(step.resp))
  /\ UNCHANGED <<user, isAuthenticated, isLoading, location, homeMounted,
                 authError, nextId, lastVerify>>
  /\ UNCHANGED homeVars

NextRequest == Request

SpecRequest == InitRequest /\ [][NextRequest]_vars

\* --------------------------------------------------- Home's filtering

\* A signed-in session showing Home, with nothing of the session in flight.
SignedIn(n) ==
  /\ token = "t1"
  /\ cachedUser = "u1"
  /\ user = "u1"
  /\ isAuthenticated = TRUE
  /\ isLoading = FALSE
  /\ location = "/"
  /\ navPending = FALSE
  /\ homeMounted = TRUE
  /\ authError = ""
  /\ inflight = {}
  /\ nextId = n
  /\ lastVerify = "passed"
  /\ step = NoStep("load")

\* Home has loaded a collection; the filters are as useState leaves them and
\* the filter effect has run once.
InitFilter ==
  /\ SignedIn(0)
  /\ items \in FilterCollections
  /\ filteredItems = applyFilters(items, <<>>, AllFilter, AllFilter, AllFilter)
  /\ searchQuery = <<>>
  /\ statusFilter = AllFilter
  /\ categoryFilter = AllFilter
  /\ frequencyFilter = AllFilter
  /\ homeIsLoading = FALSE
  /\ isDialogOpen = FALSE
  /\ editingItem = NoItem
  /\ showDeleteAlert = NoId
  /\ pending = {}
  /\ server = {items[k] : k \in 1..Len(items)}
  /\ serverNextId = Len(items) + 1
  /\ event = NoEvent("none")

\* A filter effect that also reloads the items, as if loadItems depended on
\* the filters.
FilteredRefetch(q, sf, cf, ff, h) ==
  /\ nextId <= MaxMutations
  /\ searchQuery' = q
  /\ statusFilter' = sf
  /\ categoryFilter' = cf
  /\ frequencyFilter' = ff
  /\ filteredItems' = applyFilters(items, q, sf, cf, ff)
  /\ event' = [NoEvent(h) EXCEPT !.anyFailed = event.anyFailed]
  /\ nextId' = nextId + 1
  /\ pending' = pending \cup
       {[id |-> nextId + 1, kind |-> "getItems", auth |-> AuthHeader(token), item |-> NoId,
         arg |-> NoItem, phase |-> "sent",
         resp |-> [status |-> NetFail,
                   body |-> [success |-> FALSE, message |-> NoMsg,
                             data |-> [one |-> NoItem, list |-> <<>>]]]]}
  /\ UNCHANGED <<items, homeIsLoading, isDialogOpen, editingItem, showDeleteAlert,
                 server, serverNextId>>
  /\ UNCHANGED <<token, cachedUser, user, isAuthenticated, isLoading, location,
                 navPending, homeMounted, authError, inflight, lastVerify, step>>

\* A filter input changes: the state is set and the filter effect re-runs.
Filtered(q, sf, cf, ff, h) ==
  /\ searchQuery' = q
  /\ statusFilter' = sf
  /\ categoryFilter' = cf
  /\ frequencyFilter' = ff
  /\ filteredItems' = applyFilters(items, q, sf, cf, ff)
  /\ event' = [NoEvent(h) EXCEPT !.anyFailed = event.anyFailed]
  /\ UNCHANGED <<items, homeIsLoading, isDialogOpen, editingItem, showDeleteAlert,
                 pending, server, serverNextId>>
  /\ UNCHANGED authVars

SetSearchQuery ==
  \E q \in SearchTexts :
    Filtered(q, statusFilter, categoryFilter, frequencyFilter, "applyFilters")

SetStatusFilter ==
  \E v \in StatusFilters :
    Filtered(searchQuery, v, categoryFilter, frequencyFilter, "applyFilters")

SetCategoryFilter ==
  \E v \in CategoryFilters :
    Filtered(searchQuery, statusFilter, v, frequencyFilter, "applyFilters")

SetFrequencyFilter ==
  \E v \in FrequencyFilters :
    Filtered(searchQuery, statusFilter, categoryFilter, v, "applyFilters")

clearFilters == Filtered(<<>>, AllFilter, AllFilter, AllFilter, "applyFilters")

NextFilter ==
  \/ SetSearchQuery
  \/ SetStatusFilter
  \/ SetCategoryFilter
  \/ SetFrequencyFilter
  \/ clearFilters

SpecFilter == InitFilter /\ [][NextFilter]_vars

\* ------------------------------------------------- Home's collection

\* A handleAddItem that puts the created record behind the others.
handleAddItemDoneAppend(its, res) == IF res.ok THEN Append(its, res.data.one) ELSE its

\* handleAddItem, after the await: setItems(prev => [created, ...prev]).
handleAddItemDone(its, res) == IF res.ok THEN <<res.data.one>> \o its ELSE its

\* A handleEditItem that discards the response's record.
handleEditItemDoneDiscarded(its, res) == its

\* A handleEditItem that drops the old record and puts the new one in front.
handleEditItemDoneToFront(its, res) ==
  LET keep(i) == i.id # res.data.one.id
  IN IF res.ok THEN <<res.data.one>> \o SelectSeq(its, keep) ELSE its

\* handleEditItem and handleStatusUpdate, after the await:
\* setItems(prev => prev.map(item => item.id === updated.id ? updated : item)).
handleEditItemDone(its, res) ==
  IF res.ok
    THEN [k \in 1..Len(its) |-> IF its[k].id = res.data.one.id THEN res.data.one ELSE its[k]]
    ELSE its

\* A handleDeleteItem that removes the item before the request has succeeded.
handleDeleteItemDoneOptimistic(its, id, res) ==
  LET keep(i) == i.id # id IN SelectSeq(its, keep)

\* handleDeleteItem, after the await: setItems(prev => prev.filter(item => item.id !== id)).
handleDeleteItemDone(its, id, res) ==
  LET keep(i) == i.id # id IN IF res.ok THEN SelectSeq(its, keep) ELSE its

\* loadItems, after the await: setItems(data).
loadItemsDone(its, res) == IF res.ok THEN res.data.list ELSE its

\* The toast a handler shows once its request has resolved or rejected
\* (loadItems, handleAddItem, handleEditItem, handleStatusUpdate, handleDeleteItem).
ToastOf(r, res) ==
  CASE r.kind = "getItems" -> IF res.ok THEN "" ELSE "Failed to load inventory items"
    [] r.kind = "createItem" -> IF res.ok THEN "Item added to inventory" ELSE "Failed to add item"
    [] r.kind = "updateItem" -> IF res.ok THEN "Item updated" ELSE "Failed to update item"
    [] r.kind = "updateItemStatus" ->
         IF res.ok THEN "Item status updated" ELSE "Failed to update status"
    [] OTHER -> IF res.ok THEN "Item deleted" ELSE "Failed to delete item"
ErrorToasts ==
  {"Failed to load inventory items", "Failed to add item", "Failed to update item",
   "Failed to update status", "Failed to delete item"}

\* AddItemDialog.handleSubmit: a name that is blank after trim() is dropped.
handleSubmitAccepts(name) == trim(name) # <<>>
\* The input's required attribute: the browser refuses an empty field.
RequiredMessage == "Please fill out this field."

\* A handleDeleteItem that does not ask.
handleDeleteItemNoConfirm(confirmed) == TRUE

\* handleDeleteItem: the request goes out only when confirm() returned true.
handleDeleteItemProceeds(confirmed) == confirmed

\* The cards the grid shows: filteredItems, once the spinner is gone.
CardShown(id) ==
  ~homeIsLoading /\ \E k \in 1..Len(filteredItems) : filteredItems[k].id = id
\* A dialog or an alert that is open covers the page.
PageFree == homeMounted /\ ~isDialogOpen /\ showDeleteAlert = NoId

\* A request of Home's as request() sends it.
HomeRequest(kind, id, arg) ==
  [id |-> nextId + 1, kind |-> kind, auth |-> AuthHeader(token), item |-> id,
   arg |-> arg, phase |-> "sent", resp |-> HomeError(NetFail, NoMsg)]

HomeEvent(h, r, res, shown, confirmed) ==
  [handler |-> h, kind |-> r.kind, item |-> r.item, ok |-> res.ok,
   result |-> IF res.ok THEN res.data.one ELSE NoItem,
   shown |-> shown, confirmed |-> confirmed, anyFailed |-> ~res.ok]

\* Everything of the session but the request counter stays.
SessionKept ==
  UNCHANGED <<token, cachedUser, user, isAuthenticated, isLoading, location,
              navPending, homeMounted, authError, inflight, lastVerify, step>>

\* Home's state after a handler: the filter effect re-runs on the collection,
\* and a card that is gone takes its alert with it.
HomeSet(its, loading, dlg, edit, alert, pend, ev) ==
  /\ items' = its
  /\ filteredItems' = applyFilters(its, searchQuery, statusFilter, categoryFilter, frequencyFilter)
  /\ homeIsLoading' = loading
  /\ isDialogOpen' = dlg
  /\ editingItem' = edit
  /\ showDeleteAlert' =
       IF \E k \in 1..Len(filteredItems') : filteredItems'[k].id = alert THEN alert ELSE NoId
  /\ pending' = pend
  /\ event' = [ev EXCEPT !.anyFailed = ev.anyFailed \/ event.anyFailed]
  /\ UNCHANGED <<searchQuery, statusFilter, categoryFilter, frequencyFilter>>

\* A handler issues a request: nothing of the collection changes.
HomeIssue(req, dlg, ev) ==
  /\ nextId <= MaxMutations
  /\ nextId' = nextId + 1
  /\ HomeSet(items, homeIsLoading, dlg, editingItem, NoId, pending \cup {req}, ev)
  /\ UNCHANGED <<server, serverNextId>>
  /\ SessionKept

\* A handler that sends nothing.
HomeLocal(dlg, edit, alert, ev) ==
  /\ HomeSet(items, homeIsLoading, dlg, edit, alert, pending, ev)
  /\ UNCHANGED <<server, serverNextId, nextId>>
  /\ SessionKept

\* What the backend holds when Home mounts.
ServerStarts ==
  {{},
   {Item(1, <<"a">>, NoNote, "in_stock", "groceries", "weekly"),
    Item(2, <<"b">>, NoNote, "low", "groceries", "weekly")}}

\* Home has just mounted in a signed-in session: loadItems has sent its request.
InitHome ==
  \E srv \in ServerStarts :
    /\ SignedIn(1)
    /\ items = <<>>
    /\ filteredItems = <<>>
    /\ searchQuery = <<>>
    /\ statusFilter = AllFilter
    /\ categoryFilter = AllFilter
    /\ frequencyFilter = AllFilter
    /\ homeIsLoading = TRUE
    /\ isDialogOpen = FALSE
    /\ editingItem = NoItem
    /\ showDeleteAlert = NoId
    /\ pending = {[id |-> 1, kind |-> "getItems", auth |-> AuthHeader("t1"), item |-> NoId,
                   arg |-> NoItem, phase |-> "sent", resp |-> HomeError(NetFail, NoMsg)]}
    /\ server = srv
    /\ serverNextId = Cardinality(srv) + 1
    /\ event = NoEvent("loadItems")

\* The backend handles a request and its response sets off.
Serve ==
  \E r \in pending : \E out \in Served(r, server, serverNextId) :
    /\ r.phase = "sent"
    /\ r.kind = "createItem" => serverNextId <= MaxItems
    /\ pending' = (pending \ {r}) \cup {[r EXCEPT !.phase = "answered", !.resp = out[1]]}
    /\ server' = out[2]
    /\ serverNextId' = out[3]
    /\ UNCHANGED <<items, filteredItems, searchQuery, statusFilter, categoryFilter,
                   frequencyFilter, homeIsLoading, isDialogOpen, editingItem,
                   showDeleteAlert, event>>
    /\ UNCHANGED authVars

\* A response arrives: request() runs, then the handler that awaited it.
Receive(r, its, loading, dlg, edit) ==
  LET res == request(r.resp)
      a == requestEffect(Cur, r.resp)
  IN /\ r.phase = "answered"
     /\ homeMounted
     /\ token' = a.token
     /\ cachedUser' = a.cachedUser
     /\ navPending' = a.navPending
     /\ HomeSet(its, loading, dlg, edit, showDeleteAlert, pending \ {r},
                HomeEvent("response", r, res, ToastOf(r, res), FALSE))
     /\ UNCHANGED <<server, serverNextId, nextId, user, isAuthenticated, isLoading,
                    location, homeMounted, authError, inflight, lastVerify, step>>

\* A value that is not an array (null, an object) where the list is expected.
NotASequence == <<[NoItem EXCEPT !.id = -1]>>

\* applyFilters' [...items]: spreading a value that is not iterable throws.
spreadThrows(its) == its = NotASequence
UncaughtTypeError == "TypeError: items is not iterable"

\* The filter effect throws and nothing catches it: React unmounts the tree,
\* Home and its state are gone and the page is blank.
RenderFails(r) ==
  /\ r.phase = "answered"
  /\ homeMounted
  /\ homeMounted' = FALSE
  /\ HomeSet(<<>>, TRUE, FALSE, NoItem, NoId, {},
             HomeEvent("response", r, request(r.resp), UncaughtTypeError, FALSE))
  /\ UNCHANGED <<server, serverNextId, nextId, token, cachedUser, navPending, user,
                 isAuthenticated, isLoading, location, authError, inflight, lastVerify,
                 step>>

LoadItemsResponse ==
  \E r \in pending :
    /\ r.kind = "getItems"
    /\ LET its == loadItemsDone(items, request(r.resp)) IN
         IF spreadThrows(its)
           THEN RenderFails(r)
           ELSE Receive(r, its, FALSE, isDialogOpen, editingItem)

AddItemResponse ==
  \E r \in pending :
    /\ r.kind = "createItem"
    /\ LET res == request(r.resp) IN
         Receive(r, handleAddItemDone(items, res), homeIsLoading,
                 IF res.ok THEN FALSE ELSE isDialogOpen,
                 IF res.ok THEN NoItem ELSE editingItem)

EditItemResponse ==
  \E r \in pending :
    /\ r.kind = "updateItem"
    /\ LET res == request(r.resp) IN
         Receive(r, handleEditItemDone(items, res), homeIsLoading,
                 IF res.ok THEN FALSE ELSE isDialogOpen,
                 IF res.ok THEN NoItem ELSE editingItem)

StatusUpdateResponse ==
  \E r \in pending :
    /\ r.kind = "updateItemStatus"
    /\ Receive(r, handleEditItemDone(items, request(r.resp)), homeIsLoading,
               isDialogOpen, editingItem)

DeleteItemResponse ==
  \E r \in pending :
    /\ r.kind = "deleteItem"
    /\ Receive(r, handleDeleteItemDone(items, r.item, request(r.resp)), homeIsLoading,
               isDialogOpen, editingItem)

\* "Add Item": setEditingItem(null); setIsDialogOpen(true).
OpenAddDialog ==
  /\ PageFree
  /\ HomeLocal(TRUE, NoItem, NoId, NoEvent("ui"))

\* A card's "Edit": setEditingItem(item); setIsDialogOpen(true).
OpenEditDialog ==
  \E k \in 1..Len(filteredItems) :
    /\ PageFree /\ CardShown(filteredItems[k].id)
    /\ HomeLocal(TRUE, filteredItems[k], NoId, NoEvent("ui"))

\* The dialog is dismissed: onOpenChange(false).
CloseDialog ==
  /\ homeMounted /\ isDialogOpen
  /\ HomeLocal(FALSE, editingItem, NoId, NoEvent("ui"))

\* The dialog's form is submitted with the name field empty: the browser
\* refuses it and handleSubmit does not run.
SubmitEmpty ==
  /\ homeMounted /\ isDialogOpen
  /\ HomeLocal(isDialogOpen, editingItem, NoId,
               [NoEvent("submit") EXCEPT !.shown = RequiredMessage])

\* handleSubmit with a name that is blank after trim(): it returns.
HandleSubmitBlank ==
  \E name \in FormNames \ {<<>>} :
    /\ homeMounted /\ isDialogOpen
    /\ ~handleSubmitAccepts(name)
    /\ HomeLocal(isDialogOpen, editingItem, NoId, NoEvent("handleSubmit"))

\* handleSubmit in add mode: handleAddItem sends createItem, the dialog closes.
HandleSubmitAdd ==
  \E name \in FormNames \ {<<>>} :
    /\ homeMounted /\ isDialogOpen /\ editingItem = NoItem
    /\ handleSubmitAccepts(name)
    /\ HomeIssue(HomeRequest("createItem", NoId, [NoItem EXCEPT !.name = name]), FALSE,
                 [NoEvent("handleSubmit") EXCEPT !.kind = "createItem"])

\* handleSubmit in edit mode: handleEditItem sends updateItem for editingItem.
HandleSubmitEdit ==
  \E name \in FormNames \ {<<>>} :
    /\ homeMounted /\ isDialogOpen /\ editingItem # NoItem
    /\ handleSubmitAccepts(name)
    /\ HomeIssue(HomeRequest("updateItem", editingItem.id, [editingItem EXCEPT !.name = name]),
                 FALSE,
                 [NoEvent("handleSubmit") EXCEPT !.kind = "updateItem",
                                                 !.item = editingItem.id])

\* A status button of a card: handleStatusUpdate sends updateItemStatus.
HandleStatusUpdate ==
  \E k \in 1..Len(filteredItems), st \in StatusChoices :
    /\ PageFree /\ CardShown(filteredItems[k].id)
    /\ HomeIssue(HomeRequest("updateItemStatus", filteredItems[k].id,
                             [NoItem EXCEPT !.status = st]),
                 isDialogOpen,
                 [NoEvent("handleStatusUpdate") EXCEPT !.kind = "updateItemStatus",
                                                       !.item = filteredItems[k].id])

\* A card's "Delete" menu entry opens the card's alert.
OpenDeleteAlert ==
  \E k \in 1..Len(filteredItems) :
    /\ PageFree /\ CardShown(filteredItems[k].id)
    /\ HomeLocal(isDialogOpen, editingItem, filteredItems[k].id, NoEvent("ui"))

\* The alert's "Cancel".
CancelDeleteAlert ==
  /\ homeMounted /\ showDeleteAlert # NoId
  /\ HomeLocal(isDialogOpen, editingItem, NoId, NoEvent("ui"))

\* The alert's "Delete": handleDeleteItem asks confirm() and, on yes, sends deleteItem.
HandleDeleteItem ==
  \E confirmed \in BOOLEAN :
    /\ homeMounted /\ showDeleteAlert # NoId
    /\ LET ev == [NoEvent("handleDeleteItem") EXCEPT !.kind = "deleteItem",
                                                     !.item = showDeleteAlert,
                                                     !.confirmed = confirmed]
       IN IF handleDeleteItemProceeds(confirmed)
            THEN HomeIssue(HomeRequest("deleteItem", showDeleteAlert, NoItem), isDialogOpen, ev)
            ELSE HomeLocal(isDialogOpen, editingItem, NoId, ev)

\* The navigation a 401 started replaces the document: Home and what it
\* awaited are gone, the backend stays.
Unload ==
  /\ navPending /\ homeMounted
  /\ LET s == PageLoad(token, cachedUser, "/auth", nextId) IN
       /\ token' = s.token
       /\ cachedUser' = s.cachedUser
       /\ user' = s.user
       /\ isAuthenticated' = s.isAuthenticated
       /\ isLoading' = s.isLoading
       /\ location' = s.location
       /\ navPending' = s.navPending
       /\ homeMounted' = s.homeMounted
       /\ authError' = s.authError
       /\ inflight' = s.inflight
       /\ nextId' = s.nextId
       /\ lastVerify' = s.lastVerify
       /\ step' = NoStep("load")
  /\ HomeSet(<<>>, TRUE, FALSE, NoItem, NoId, {}, NoEvent("unload"))
  /\ UNCHANGED <<server, serverNextId>>

NextHome ==
  \/ Serve
  \/ LoadItemsResponse
  \/ AddItemResponse
  \/ EditItemResponse
  \/ StatusUpdateResponse
  \/ DeleteItemResponse
  \/ OpenAddDialog
  \/ OpenEditDialog
  \/ CloseDialog
  \/ SubmitEmpty
  \/ HandleSubmitBlank
  \/ HandleSubmitAdd
  \/ HandleSubmitEdit
  \/ HandleStatusUpdate
  \/ OpenDeleteAlert
  \/ CancelDeleteAlert
  \/ HandleDeleteItem
  \/ Unload

SpecHome == InitHome /\ [][NextHome]_vars

\* ------------------------------------------ Home's load and its filters

\* loadItems: the filters object it builds from the filter state.
loadItemsFilters(sf, cf, ff) ==
  (IF sf # AllFilter THEN {<<"status", sf>>} ELSE {})
    \cup (IF cf # AllFilter THEN {<<"category", cf>>} ELSE {})
    \cup (IF ff # AllFilter THEN {<<"frequency", ff>>} ELSE {})

\* ApiService.getItems: the query parameters of the URL, the truthy entries.
getItemsQuery(filters) == {f \in filters : Truthy(f[2])}

\* Home has mounted and its load is in flight; while it is, and after, the
\* user changes the search text and the filters.
InitLoad == InitHome

\* The backend answers the items request with a body whose data is no list.
ServeMalformed ==
  \E r \in pending :
    /\ r.kind = "getItems" /\ r.phase = "sent" /\ r.auth # NoHeader
    /\ pending' = (pending \ {r}) \cup
         {[r EXCEPT !.phase = "answered",
                    !.resp = HomeOk(200, HomeData(NoItem, NotASequence))]}
    /\ UNCHANGED <<items, filteredItems, searchQuery, statusFilter, categoryFilter,
                   frequencyFilter, homeIsLoading, isDialogOpen, editingItem,
                   showDeleteAlert, server, serverNextId, event>>
    /\ UNCHANGED authVars

NextLoad ==
  \/ Serve
  \/ ServeMalformed
  \/ LoadItemsResponse
  \/ Unload
  \/ (homeMounted /\ SetSearchQuery)
  \/ (homeMounted /\ SetStatusFilter)
  \/ (homeMounted /\ SetCategoryFilter)
  \/ (homeMounted /\ SetFrequencyFilter)
  \/ (homeMounted /\ clearFilters)

SpecLoad == InitLoad /\ [][NextLoad]_vars

\* ------------------------------------------------------------ properties

\* The last step was request() (and its callers) handling a response.
IsResponse == step.handler \in {"verifyAuth", "login", "register", "logout", "data", "request"}

\* C1: whatever the endpoint and the state before, once a response with status
\* 401 has been handled the token and the cached user are gone from storage,
\* window.location.href has been set to "/auth", and request() has thrown the
\* Unauthorized error instead of returning data.
C1_UnauthorizedClearsAndRedirects ==
  (IsResponse /\ step.resp.status = 401) =>
    /\ token = NoToken
    /\ cachedUser = NoUser
    /\ navPending
    /\ ~step.res.ok
    /\ step.res.message = MsgUnauthorized
    /\ step.res.data = NoData

\* C1 witness: an items request sent with a token was answered 401.
C1_Witness ==
  /\ step.handler = "data" /\ step.kind = "getItems"
  /\ step.resp.status = 401 /\ step.auth \in Tokens
  /\ token = NoToken /\ navPending

\* C2: a request carries the Authorization header of the token stored when it
\* is issued, and carries none exactly when no token is stored then.  It holds
\* of the requests the first page load issues and of every request issued later.
C2_BearerIffTokenStored ==
  /\ \A r \in inflight : r.auth = (IF token = NoToken THEN NoHeader ELSE token)
  /\ [][\A r \in inflight' \ inflight :
          r.auth = (IF token' = NoToken THEN NoHeader ELSE token')]_vars

\* C2 witness: one request in flight carries a token and another carries none.
C2_Witness ==
  \E r1 \in inflight, r2 \in inflight : r1.auth \in Tokens /\ r2.auth = NoHeader

\* C3: for a non-2xx response the outcome follows the status alone, in the
\* order 401, 403, >= 500, anything else; only the last consults the body and
\* takes its message, or the generic one when the message is absent or empty.
C3_StatusDecidesError ==
  (step.handler = "request" /\ step.resp.status # NetFail
     /\ ~(step.resp.status >= 200 /\ step.resp.status <= 299)) =>
    /\ ~step.res.ok
    /\ step.res.message =
         (IF step.resp.status = 401 THEN MsgUnauthorized
          ELSE IF step.resp.status = 403 THEN MsgForbidden
          ELSE IF step.resp.status >= 500 THEN MsgServerError
          ELSE IF step.resp.body.message \in ServerMsgs THEN step.resp.body.message
          ELSE MsgGeneric)

\* C3 witness: a 404 with a server message was turned into that message.
C3_Witness ==
  /\ step.handler = "request" /\ step.resp.status = 404
  /\ step.resp.body.message = "Invalid credentials"
  /\ step.res = Rejected("Invalid credentials")

C5_AuthIffUserAndVerified ==
  isAuthenticated <=> (user # NoUser /\ lastVerify # "failed")

\* C5 amended: authenticated is true exactly when a user is present; a failed
\* verification leaves the session without user and not authenticated, and a
\* later login or register authenticates it again.
C5_AuthIffUser ==
  /\ isAuthenticated <=> (user # NoUser)
  /\ (step.handler = "verifyAuth" /\ lastVerify = "failed") => ~isAuthenticated

\* C5 witness: a session authenticated by a login after its verification failed.
C5_Witness ==
  /\ isAuthenticated /\ user # NoUser /\ lastVerify = "failed"
  /\ step.handler = "login" /\ step.res.ok

\* C6: a page load with a token stored calls verifyToken with that token; when
\* it resolves the session is authenticated as the verified user, who is also
\* the cached user; when it rejects there is no user, no token and no cached user.
C6_VerifyOnStart ==
  /\ (step.handler = "load" /\ token # NoToken) =>
       \E r \in inflight : r.kind = "verify" /\ r.auth = token
  /\ (step.handler = "verifyAuth" /\ step.res.ok) =>
       /\ user = step.res.data.user
       /\ isAuthenticated
       /\ cachedUser = step.res.data.user
  /\ (step.handler = "verifyAuth" /\ ~step.res.ok) =>
       /\ user = NoUser
       /\ ~isAuthenticated
       /\ token = NoToken
       /\ cachedUser = NoUser

\* C6 witness: the verification of a stored token resolved with user u2.
C6_Witness ==
  /\ step.handler = "verifyAuth" /\ step.res.ok /\ step.auth \in Tokens
  /\ user = "u2" /\ cachedUser = "u2" /\ isAuthenticated

C8_LoginPersists ==
  (step.handler \in {"login", "register"} /\ step.res.ok) =>
    /\ user = step.res.data.user
    /\ isAuthenticated
    /\ token = step.res.data.token
    /\ cachedUser = step.res.data.user

\* C8 amended: a login or register that resolves authenticates the session as
\* the returned user; the token and user are stored when the token is non-empty.
C8_LoginAuthenticates ==
  (step.handler \in {"login", "register"} /\ step.res.ok) =>
    /\ user = step.res.data.user
    /\ isAuthenticated
    /\ step.res.data.token # EmptyToken =>
         (token = step.res.data.token /\ cachedUser = step.res.data.user)

\* C8 witness: a register resolved with token t2 and user u2, both now stored.
C8_Witness ==
  /\ step.handler = "register" /\ step.res.ok
  /\ token = "t2" /\ cachedUser = "u2" /\ user = "u2" /\ isAuthenticated

\* C9: a login or register that rejects while the session is anonymous leaves
\* it anonymous, writes neither a token nor a cached user, and hands the error
\* to its caller: AuthPage shows the message and stays on "/auth".
C9_FailedLoginStaysAnonymous ==
  [][(step'.handler \in {"login", "register"} /\ ~step'.res.ok
        /\ user = NoUser /\ ~isAuthenticated) =>
       /\ user' = NoUser
       /\ ~isAuthenticated'
       /\ token' \in {token, NoToken}
       /\ cachedUser' \in {cachedUser, NoUser}
       /\ location' = "/auth"
       /\ authError' = step'.res.message]_vars

\* C9 witness: a login was rejected with the server's message, now shown.
C9_Witness ==
  /\ step.handler = "login" /\ ~step.res.ok /\ step.resp.status = 400
  /\ authError = "Invalid credentials"
  /\ user = NoUser /\ ~isAuthenticated /\ token = NoToken /\ cachedUser = NoUser

\* C10: when a logout call ends, whatever the response, the session has no
\* user, is not authenticated, and storage holds no token and no cached user.
C10_LogoutAlwaysClears ==
  step.handler = "logout" =>
    /\ user = NoUser
    /\ ~isAuthenticated
    /\ token = NoToken
    /\ cachedUser = NoUser

\* C10 witness: a logout whose request failed with a 500 ended cleared.
C10_Witness ==
  /\ step.handler = "logout" /\ step.resp.status = 500
  /\ user = NoUser /\ ~isAuthenticated /\ token = NoToken /\ cachedUser = NoUser

\* The calls of the Auth Session Store that set its loading flag.
LoadingKinds == {"login", "register", "logout"}

C12_HomeGatedByAuth ==
  /\ [](homeMounted => isAuthenticated)
  /\ \A r \in inflight : r.kind \in DataKinds => isAuthenticated
  /\ [][\A r \in inflight' \ inflight : r.kind \in DataKinds => isAuthenticated']_vars

\* C12 witness: a login succeeded from Anonymous, then Home mounted
\* authenticated and issued its items request.
C12_Witness ==
  /\ step.handler = "login" /\ step.res.ok /\ homeMounted /\ isAuthenticated
  /\ \E r \in inflight : r.kind = "getItems"

\* The search predicate as documented: the text, lower-cased, occurs in the
\* lower-cased name, or the item has a note and it occurs in the lower-cased note.
SearchNameOrNote(i, q) ==
  \/ includes(toLowerCase(i.name), toLowerCase(q))
  \/ i.note # NoNote /\ includes(toLowerCase(i.note), toLowerCase(q))

\* An item satisfies every active predicate of the filter state.
Matches(i, q, sf, cf, ff) ==
  /\ q # <<>> => SearchNameOrNote(i, q)
  /\ sf # AllFilter => i.status = sf
  /\ cf # AllFilter => i.category = cf
  /\ ff # AllFilter => i.frequency = ff

\* The collection is the one that was loaded, item for item.
CollectionAsLoaded ==
  /\ Len(items) + 1 = serverNextId
  /\ \A k \in 1..Len(items) : items[k].id = k /\ items[k] \in server

\* C13: for every collection and filter state the visible items are exactly
\* the items satisfying all active predicates (search, status, category,
\* frequency) combined with AND, in the collection's order, and the
\* collection itself is as it was.
C13_VisibleIsConjunction ==
  LET match(i) == Matches(i, searchQuery, statusFilter, categoryFilter, frequencyFilter)
  IN /\ filteredItems = SelectSeq(items, match)
     /\ CollectionAsLoaded

\* C14: with a non-empty search text and no other filter active, an item is
\* visible if and only if the text occurs, case-insensitively, in its name or
\* in its note when it has one.
C14_SearchNameOrNote ==
  (searchQuery # <<>> /\ statusFilter = AllFilter /\ categoryFilter = AllFilter
     /\ frequencyFilter = AllFilter) =>
    \A k \in 1..Len(items) :
      (\E j \in 1..Len(filteredItems) : filteredItems[j] = items[k])
        <=> SearchNameOrNote(items[k], searchQuery)

\* The step applies the response to request r: r was answered and is gone, and
\* Home is still there.
Answered(r) ==
  /\ r \in pending /\ r.phase = "answered"
  /\ \A q \in pending' : q.id # r.id
  /\ homeMounted'

\* The step is a handler of Home's, not the backend's work on a request.
HandlerStep ==
  \A r \in pending : r.phase = "sent" => (r \in pending' \/ \A q \in pending' : q.id # r.id)

\* How many items of a collection have the id.
CountId(its, id) == Cardinality({k \in 1..Len(its) : its[k].id = id})

\* C15: when a create succeeds with the server's record R, the collection
\* right after is R followed by the collection as it was, and R is the
\* server's record (it has the id the server gave), not the draft.
C15_CreatedIsPrepended ==
  [][\A r \in pending :
       (Answered(r) /\ r.kind = "createItem" /\ request(r.resp).ok) =>
         /\ items' = <<r.resp.body.data.one>> \o items
         /\ items'[1].id # NoId
         /\ items'[1] # r.arg]_vars

\* C15 witness: a create succeeded on a non-empty collection; the record in
\* front is the server's, with the id it assigned.
C15_Witness ==
  /\ event.handler = "response" /\ event.kind = "createItem" /\ event.ok
  /\ Len(items) = 3 /\ items[1] = event.result /\ items[1].id = 3

\* C16: after a full update or a status update of an item succeeds with R,
\* overlapping mutations or not, the collection contains exactly one item
\* with that id, it equals R, and every other item is unchanged and in place.
C16_UpdatedExactlyOnce ==
  [][\A r \in pending :
       (Answered(r) /\ r.kind \in {"updateItem", "updateItemStatus"} /\ request(r.resp).ok) =>
         /\ CountId(items', r.item) = 1
         /\ Len(items') = Len(items)
         /\ \A k \in 1..Len(items) :
              items'[k] = IF items[k].id = r.item THEN r.resp.body.data.one ELSE items[k]]_vars

\* C16, amended: after such an update succeeds with R, every item that had
\* the id equals R, every other item is unchanged and in place, and the
\* collection has as many items with the id as before: one when it had one,
\* none when an overlapping delete had removed it.
C16_UpdatedInPlace ==
  [][\A r \in pending :
       (Answered(r) /\ r.kind \in {"updateItem", "updateItemStatus"} /\ request(r.resp).ok) =>
         /\ CountId(items', r.item) = CountId(items, r.item)
         /\ Len(items') = Len(items)
         /\ \A k \in 1..Len(items) :
              items'[k] = IF items[k].id = r.item THEN r.resp.body.data.one ELSE items[k]]_vars

\* C16 witness: a status update succeeded and its record, with the new
\* status, stands in second place where the old one stood.
C16_Witness ==
  /\ event.handler = "response" /\ event.kind = "updateItemStatus" /\ event.ok
  /\ Len(items) = 2 /\ items[2] = event.result /\ items[2].id = event.item
  /\ items[2].status = "in_stock" /\ items[1].id # event.item

\* C17: after a delete of an item succeeds on a collection containing it, no
\* item with that id remains, the collection is shorter by exactly one, and
\* the remaining items keep their order.
C17_DeletedExactlyOne ==
  [][\A r \in pending :
       (Answered(r) /\ r.kind = "deleteItem" /\ request(r.resp).ok
          /\ CountId(items, r.item) >= 1) =>
         LET keep(i) == i.id # r.item IN
           /\ CountId(items', r.item) = 0
           /\ Len(items') = Len(items) - 1
           /\ items' = SelectSeq(items, keep)]_vars

\* The step sends request r.
Issued(r) == r \in pending' /\ \A q \in pending : q.id # r.id

\* The failure half of C18: applying a failed response of a mutation leaves
\* the collection as it was and raises the handler's error toast.
FailureLeavesCollection ==
  \A r \in pending :
    (Answered(r) /\ r.kind \in MutationKinds /\ ~request(r.resp).ok) =>
      /\ items' = items
      /\ event'.shown \in ErrorToasts
      /\ event'.shown = ToastOf(r, request(r.resp))

\* C18: for create, full update, delete and status update, the collection is
\* not changed from the moment the request is issued until its response is
\* received, and a failed request leaves the collection exactly as it was
\* and raises a visible error notification.
C18_UntouchedUntilResponse ==
  [][/\ (\E r \in pending' : r.kind \in MutationKinds /\ (Issued(r) \/ r \in pending))
          => items' = items
     /\ (\E r \in pending : r.kind \in MutationKinds /\ \E q \in pending' : q.id = r.id)
          => items' = items
     /\ FailureLeavesCollection]_vars

\* C18, amended: issuing a mutation changes nothing in the collection, the
\* collection changes only in a step that applies a successful response (so
\* a mutation's own effect never precedes its confirmation, while responses
\* of other requests in flight are still applied), and applying a failed
\* response leaves the collection as it was and raises the error toast.
C18_NoOptimisticMutation ==
  [][/\ (\E r \in pending' : r.kind \in MutationKinds /\ Issued(r)) => items' = items
     /\ (items' # items /\ homeMounted')
          => \E r \in pending : Answered(r) /\ request(r.resp).ok
     /\ FailureLeavesCollection]_vars

\* C18 witness: a delete failed; its error toast is up and the item is
\* still in the collection.
C18_Witness ==
  /\ event.handler = "response" /\ event.kind = "deleteItem" /\ ~event.ok
  /\ event.shown = "Failed to delete item"
  /\ CountId(items, event.item) = 1 /\ Len(items) = 2

\* C19: a delete request for an item goes out only in the step in which the
\* user confirmed the deletion of that item; when the user declines, in the
\* card's alert or in the confirm box, no request is sent and the
\* collection is unchanged.
C19_DeleteOnlyAfterConfirm ==
  [][/\ \A r \in pending' :
          (r.kind = "deleteItem" /\ Issued(r)) =>
            /\ showDeleteAlert = r.item
            /\ event'.handler = "handleDeleteItem" /\ event'.item = r.item
            /\ event'.confirmed
     /\ (HandlerStep /\ showDeleteAlert # NoId /\ homeMounted'
          /\ event'.handler \in {"handleDeleteItem", "ui"} /\ ~event'.confirmed)
          => (pending' = pending /\ items' = items)]_vars

\* C19 witness: the user declined to delete a shown item; nothing is in
\* flight and the item is still there.
C19_Witness ==
  /\ event.handler = "handleDeleteItem" /\ ~event.confirmed
  /\ CountId(items, event.item) = 1 /\ pending = {}
  /\ server # {}

\* C20: submitting the dialog with a name that is empty or only whitespace
\* shows a validation message, sends no create or update request and leaves
\* the collection unchanged.
C20_BlankNameRejectedWithMessage ==
  [][(HandlerStep /\ isDialogOpen /\ event'.handler \in {"submit", "handleSubmit"}
        /\ event'.kind = "")
       => /\ event'.shown # ""
          /\ pending' = pending
          /\ items' = items]_vars

\* C21: Home's mount sends one items request, without filter parameters, and
\* no later step sends another: no change of the search text or of a filter,
\* clearing them included, issues a request.
C21_FiltersNeverFetch ==
  /\ Cardinality({r \in pending : r.kind = "getItems"}) = 1
  /\ getItemsQuery(loadItemsFilters(statusFilter, categoryFilter, frequencyFilter)) = {}
  /\ [][/\ \A r \in pending' : \E q \in pending : q.id = r.id
        /\ nextId' = nextId
        /\ inflight' = inflight]_vars

\* C21 witness: the load is over, the user has typed a search text and set a
\* filter, and only the mount's request was ever issued.
C21_Witness ==
  /\ event.handler = "applyFilters"
  /\ searchQuery # <<>> /\ statusFilter # AllFilter
  /\ Len(items) = 2 /\ Len(filteredItems) < 2
  /\ pending = {} /\ nextId = 1

\* C22: the stored token is never written or cleared while a request other
\* than the one being completed is in flight, and it changes only at a
\* login or register success, at logout and at a 401.
C22_TokenStableWhileInFlight ==
  [][token' # token =>
       /\ Cardinality(inflight) <= 1
       /\ \/ step'.handler \in {"login", "register"} /\ step'.res.ok
          \/ step'.handler = "logout"
          \/ step'.resp.status = 401]_vars

\* C22, amended: the stored token changes only while a response is handled,
\* never when a request is issued or between the two: it is set to the
\* response's token at a login or register success with a truthy token, and
\* cleared when a logout completes, at any 401 and when the startup
\* verification fails with any error; other requests may be in flight then.
C22_TokenWrittenAtResponsesOnly ==
  [][token' # token =>
       /\ step'.kind # ""
       /\ \E r \in inflight : r.kind = step'.kind /\ r \notin inflight'
       /\ \/ /\ step'.handler \in {"login", "register"} /\ step'.res.ok
             /\ Truthy(step'.res.data.token) /\ token' = step'.res.data.token
          \/ step'.handler = "logout" /\ token' = NoToken
          \/ step'.resp.status = 401 /\ token' = NoToken
          \/ step'.handler = "verifyAuth" /\ ~step'.res.ok /\ token' = NoToken]_vars

\* C22 witness: a 401 on one of Home's requests has cleared the token while
\* other requests, sent with it, are still in flight.
C22_Witness ==
  /\ step.handler = "data" /\ step.resp.status = 401 /\ step.auth \in Tokens
  /\ token = NoToken
  /\ \E r \in inflight : r.auth = step.auth

\* The two calls that replace an item's record.
UpdateKinds == {"updateItem", "updateItemStatus"}

Quiet == homeMounted /\ ~homeIsLoading /\ pending = {}

\* The collection holds the backend's items, each once and as the backend has it.
CacheMatchesServer ==
  /\ Len(items) = Cardinality(server)
  /\ {items[k] : k \in 1..Len(items)} = server

\* C24: as long as no request has failed, whenever the initial load is over
\* and no request is in flight the collection holds exactly the backend's
\* items, each equal to the backend's record of its id.
C24_CacheConsistentWithServer ==
  (Quiet /\ ~event.anyFailed) => CacheMatchesServer

\* C25: when the value the items fetch returns is not a sequence, the
\* collection is taken as empty: Home stays up, the collection and the
\* visible items are empty, and nothing fails.
C25_MalformedTreatedAsEmpty ==
  [][\A r \in pending :
       (/\ r.kind = "getItems" /\ r.phase = "answered"
        /\ r.resp.body.data.list = NotASequence
        /\ \A q \in pending' : q.id # r.id) =>
         /\ homeMounted'
         /\ items' = <<>> /\ filteredItems' = <<>>
         /\ event'.shown = ""]_vars

\* C26: the backend's ids grow with creation, so newest-first means that the
\* record a successful create puts in front is the newest of the collection:
\* no item behind it was created after it, also when creates overlap.
C26_NewestFirst ==
  [][\A r \in pending :
       (Answered(r) /\ r.kind = "createItem" /\ request(r.resp).ok) =>
         \A k \in 1..Len(items') : items'[k].id <= items'[1].id]_vars

\* C27: in every reachable state, a session that is Authenticated (a user
\* is present and the authenticated flag is set) has a token in storage.
C27_AuthenticatedHasToken ==
  (user # NoUser /\ isAuthenticated) => Truthy(token)

\* C28: once a login has stored a new token, the response to a request that
\* was issued earlier, with another token or none, does not undo it: the
\* stored token, the user and the authenticated flag stay as they are, also
\* when that older request (the startup verification, a data request) fails.
C28_LoginNotUndoneByOlderRequest ==
  [][\A r \in inflight :
       (/\ r \notin inflight'
        /\ step'.handler \in {"verifyAuth", "data"}
        /\ step'.kind = r.kind /\ step'.auth = r.auth
        /\ Truthy(token) /\ r.auth # token
        /\ user # NoUser /\ isAuthenticated) =>
         /\ token' = token
         /\ user' = user
         /\ isAuthenticated']_vars

\* C29: the backend gives every created item its own id and lists each item
\* once; then the collection never holds two items with the same id,
\* however the initial load's response and the create responses interleave.
C29_NoDuplicateIds ==
  \A k, l \in 1..Len(items) : items[k].id = items[l].id => k = l

\* The session is Anonymous at /auth with nothing left in storage.
AnonymousAtAuth ==
  /\ token = NoToken /\ cachedUser = NoUser
  /\ user = NoUser /\ ~isAuthenticated
  /\ location = "/auth" /\ ~homeMounted

\* C30: started with a stored token that the backend rejects with 401 on
\* every request, and with every request answered in the end, the app comes
\* to have no token and no cached user, an Anonymous session and location
\* /auth, and from then on stays there: no login succeeds against this
\* backend, and nothing sends the app back to /.
C30_RejectedTokenEndsAtAuth == <>[]AnonymousAtAuth

\* C30 witness: the 401's navigation has loaded /auth afresh: storage is
\* empty, the session Anonymous, nothing in flight, and requests were sent
\* with the stored token before.
C30_Witness ==
  /\ AnonymousAtAuth
  /\ step.handler = "load" /\ ~navPending /\ inflight = {}
  /\ nextId >= 4

====
